---- MODULE Spec2Model ----
(***************************************************************************)
(* State-machine model of the social-tracking backend: the concepts        *)
(* Linking, Tracking, Competing and Joining, and the routes that           *)
(* synchronise them.  Every store is a MongoDB collection, modelled as the *)
(* sequence of its documents in insertion order.  An `await` is a point    *)
(* where another request can run, so the handlers whose check and write    *)
(* are separate store calls are split at that point.                       *)
(*                                                                         *)
(* A GET handler changes no store: it is an operator over the stores.      *)
(*                                                                         *)
(*   Spec      posts and their links: the post and link routes of          *)
(*             part_008 over Linking (part_006)                            *)
(*   SpecR9    competitions, memberships and the data-logging flow as the  *)
(*             routes run them, over Competing, Joining (joining.ts) and   *)
(*             Tracking                                                    *)
(*   SpecFlow  the data-logging flow over memberships made by              *)
(*             Joining.join(user, group), with Competing.inputData and     *)
(*             Linking.link split at their awaits                          *)
(*   SpecComp  Competing on its own (competing.ts): create, update,        *)
(*             inputData and delete, each run without interruption, and    *)
(*             the clock                                                   *)
(*   SpecRace  Competing.create and Competing.update split at their        *)
(*             awaits, several calls in flight                             *)
(*   SpecTrack Tracking on its own (tracking.ts): log and delete           *)
(*   SpecDel   the owner's routes of part_008 on competitions and data     *)
(*             points (update, delete, link, unlink), with                 *)
(*             Competing.delete                                            *)
(*   SpecP9    the post routes of part_009 over Linking of part_005, whose *)
(*             unlink asserts the Link                                     *)
(*   SpecLog   logging twice for one date around Joining.join and          *)
(*             Joining.leave                                               *)
(***************************************************************************)
EXTENDS Integers, Sequences, FiniteSets, TLC

VARIABLES
  now,          \* the clock: the value of `new Date()`
  nextId,       \* per collection, the number of ObjectIds handed out so far
  posts,        \* Posting's collection
  data,         \* Tracking's collection
  competition,  \* Competing's collection
  memberships,  \* Joining's collection
  links,        \* Linking's collection
  reqs,         \* the asynchronous calls started so far, each with its position
  logs          \* one record per logData call: what it created and returned

vars == <<now, nextId, posts, data, competition, memberships, links, reqs, logs>>

-----------------------------------------------------------------------------
(* Bounds of the model *)

NUsers == 2
NOwners == 1
MaxPosts == 1
MaxData == 1
MaxComps == 2
MaxMembers == 4
MaxLinks == 2
MaxReqs == 2
MaxTime == 2
MaxDate == 1
MaxScore == 1
MaxLogs == 3

Users == 1..NUsers
Dates == 1..MaxDate
Scores == 1..MaxScore
Names == {"A", "B"}
Bools == {TRUE, FALSE}

(* ObjectIds are globally unique.  Users hold 1..NUsers; each collection   *)
(* hands out the ids of its own range, in order.                           *)
Max(coll) ==
  CASE coll = "posts" -> MaxPosts
    [] coll = "data" -> MaxData
    [] coll = "competition" -> MaxComps

Base(coll) ==
  CASE coll = "posts" -> NUsers
    [] coll = "data" -> NUsers + MaxPosts
    [] coll = "competition" -> NUsers + MaxPosts + MaxLogs

Collections == {"posts", "data", "competition"}

IdsOf(coll) == (Base(coll) + 1)..(Base(coll) + Max(coll))
CanCreate(coll) == nextId[coll] < Max(coll)
NewId(coll) == Base(coll) + nextId[coll] + 1
Took(coll) == [nextId EXCEPT ![coll] = @ + 1]

(* The ids a client can name in a request *)
ItemIds == IdsOf("posts") \cup IdsOf("data") \cup IdsOf("competition")

-----------------------------------------------------------------------------
(* The document store (framework/doc, DocCollection) *)

Range(s) == {s[i] : i \in 1..Len(s)}

createOne(coll, doc) == Append(coll, doc)

(* A filter is a record of field values, as in { user, item }: a document *)
(* matches when it has each of those fields with that value.               *)
Matches(doc, filter) ==
  \A k \in DOMAIN filter : k \in DOMAIN doc /\ doc[k] = filter[k]

(* readOne: the first matching document, <<>> for null *)
readOne(coll, filter) ==
  LET m == SelectSeq(coll, LAMBDA d : Matches(d, filter))
  IN IF m = <<>> THEN <<>> ELSE <<Head(m)>>

readMany(coll, filter) == SelectSeq(coll, LAMBDA d : Matches(d, filter))

FirstMatch(coll, filter) ==
  CHOOSE i \in 1..Len(coll) :
    Matches(coll[i], filter) /\ \A j \in 1..(i - 1) : ~Matches(coll[j], filter)

(* deleteOne: removes the first matching document, if any *)
deleteOne(coll, filter) ==
  IF readMany(coll, filter) = <<>> THEN coll
  ELSE LET i == FirstMatch(coll, filter)
       IN SubSeq(coll, 1, i - 1) \o SubSeq(coll, i + 1, Len(coll))

IsNull(r) == r = <<>>

(* Usernames live in a domain disjoint from the ObjectIds. *)
Username(u) == 0 - u

(* ObjectId.equals: true for the same id, false for anything else,         *)
(* a username included.                                                    *)
equals(oid, x) == oid = x

(* An async function returns a Promise of its value: an object, which has  *)
(* none of the fields of the value and is truthy whatever the value is.    *)
Promise(v) == [promise |-> v]
Truthy(x) == "promise" \in DOMAIN x

(* Array.prototype.filter, given the callback's result for each element *)
filter(arr, results) ==
  LET kept[n \in 0..Len(arr)] ==
        IF n = 0 THEN <<>>
        ELSE IF Truthy(results[n]) THEN Append(kept[n - 1], arr[n]) ELSE kept[n - 1]
  IN kept[Len(arr)]

(* Set.prototype.has on a Set of ObjectId objects: membership is by        *)
(* object identity, and the ObjectId of another query result is another    *)
(* object.                                                                 *)
SetHas(set, oid) == FALSE

-----------------------------------------------------------------------------
(* Linking [User, Item], part_006 *)

Linking_hasLink(L, user, item) ==
  ~IsNull(readOne(L, [user |-> user, item |-> item]))

assertLinkDoesNotExist(L, user, item) ==
  IF ~IsNull(readOne(L, [user |-> user, item |-> item]))
  THEN "LinkAlreadyExists" ELSE "ok"

Linking_create(L, user, item) ==
  createOne(L, [user |-> user, item |-> item])

(* link, run without interruption: the assertion, then the insert *)
Linking_link(L, user, item) ==
  LET e == assertLinkDoesNotExist(L, user, item)
  IN IF e # "ok" THEN [err |-> e, links |-> L]
     ELSE [err |-> "ok", links |-> Linking_create(L, user, item)]

(* an unlink that removes nothing *)
Linking_unlink_keeps(L, user, item) == [err |-> "ok", links |-> L]

Linking_unlink(L, user, item) ==
  [err |-> "ok", links |-> deleteOne(L, [user |-> user, item |-> item])]

(* getLinks: every link, newest first *)
Linking_getLinks(L) == [i \in 1..Len(L) |-> L[Len(L) + 1 - i]]

-----------------------------------------------------------------------------
(* Posting [Author] *)

Posting_getByAuthor(author) == readMany(posts, [author |-> author])

Posting_assertUserIsAuthor(id, user) ==
  LET p == readOne(posts, [_id |-> id])
  IN IF IsNull(p) THEN "NotFound"
     ELSE IF p[1].author # user THEN "PostAuthorNotMatch" ELSE "ok"

Posting_redactAuthor(post) == [_id |-> post._id]

(* Responses.posts: the author id becomes the author's username *)
Responses_post(post) == [_id |-> post._id, author |-> Username(post.author)]

-----------------------------------------------------------------------------
(* Tracking [User], tracking.ts *)

(* log: the insert, then readOne({user, date}): the first document of     *)
(* that user and date                                                      *)
Tracking_log(D, id, user, date, score) ==
  LET D2 == createOne(D, [_id |-> id, user |-> user, date |-> date, score |-> score])
      r == readOne(D2, [user |-> user, date |-> date])
  IN IF IsNull(r) THEN [err |-> "NotFound", data |-> D2, ret |-> 0]
     ELSE [err |-> "ok", data |-> D2, ret |-> r[1]._id]

-----------------------------------------------------------------------------
(* Competing [User], competing.ts *)

assertNameUnique(C, name) ==
  IF ~IsNull(readOne(C, [name |-> name])) THEN "NameNotUnique" ELSE "ok"

assertDateIsInFuture(date, t) == IF date < t THEN "DateNotInFuture" ELSE "ok"

Competing_create(C, id, owner, name, endDate, t) ==
  IF assertNameUnique(C, name) # "ok"
  THEN [err |-> assertNameUnique(C, name), competition |-> C]
  ELSE IF assertDateIsInFuture(endDate, t) # "ok"
  THEN [err |-> assertDateIsInFuture(endDate, t), competition |-> C]
  ELSE [err |-> "ok",
        competition |-> createOne(C, [_id |-> id, name |-> name, owner |-> owner,
                                      endDate |-> endDate, data |-> <<>>])]

(* the existence test alone, as where update and inputData run unguarded *)
assertCompetitionIsActive_exists(C, id, t) ==
  IF IsNull(readOne(C, [_id |-> id])) THEN "NotFound" ELSE "ok"

assertCompetitionIsActive(C, id, t) ==
  LET c == readOne(C, [_id |-> id])
  IN IF IsNull(c) THEN "NotFound"
     ELSE IF c[1].endDate < t THEN "CompetitionEnded" ELSE "ok"

(* updateOne({_id}, {$push: {data}}) *)
Competing_push(C, id, dp) ==
  [k \in 1..Len(C) |-> IF C[k]._id = id THEN [C[k] EXCEPT !.data = Append(@, dp)] ELSE C[k]]

Competing_getByName(C, name) == readOne(C, [name |-> name])

-----------------------------------------------------------------------------
(* Joining [User, Group], joining.ts *)

assertUserIsNotMember(M, user, group) ==
  IF ~IsNull(readOne(M, [user |-> user, group |-> group]))
  THEN "UserIsAlreadyMember" ELSE "ok"

Joining_create(M, user, group) ==
  createOne(M, [user |-> user, group |-> group])

(* join, run without interruption *)
Joining_join(M, user, group) ==
  LET e == assertUserIsNotMember(M, user, group)
  IN IF e # "ok" THEN [err |-> e, memberships |-> M]
     ELSE [err |-> "ok", memberships |-> Joining_create(M, user, group)]

Joining_getUserMemberships(M, user) == readMany(M, [user |-> user])

-----------------------------------------------------------------------------
(* Asynchronous calls: one record per call of a method that awaits the     *)
(* store more than once, kept with its outcome once it is done.  `via` is  *)
(* the handler that made the call.                                         *)

Call(op, via, user, item, target, pc) ==
  [op |-> op, via |-> via, user |-> user, item |-> item, target |-> target,
   pc |-> pc, err |-> "", parent |-> 0]

Ops == {"link", "join", "fanout", "inputData", "create", "update", "route"}
Calls(op) == 1..Len(reqs[op])
CanCall(op) == Len(reqs[op]) < MaxReqs

Start(op, call) == [reqs EXCEPT ![op] = Append(@, call)]
Goto(op, i, pc) == [reqs EXCEPT ![op][i].pc = pc]
Finish(op, i, err) == [reqs EXCEPT ![op][i].pc = "done", ![op][i].err = err]

Done(op, i) == reqs[op][i].pc = "done"
Succeeded(op, i) == Done(op, i) /\ reqs[op][i].err = "ok"

-----------------------------------------------------------------------------
(* Initial state *)

Init ==
  /\ now = 0
  /\ nextId = [c \in Collections |-> 0]
  /\ posts = <<>>
  /\ data = <<>>
  /\ competition = <<>>
  /\ memberships = <<>>
  /\ links = <<>>
  /\ reqs = [op \in Ops |-> <<>>]
  /\ logs = <<>>

Tick ==
  /\ now < MaxTime
  /\ now' = now + 1
  /\ UNCHANGED <<nextId, posts, data, competition, memberships, links, reqs, logs>>

-----------------------------------------------------------------------------
(* Linking.link as the two store calls it awaits *)

Linking_link_assert(i) ==
  /\ reqs["link"][i].pc = "assert"
  /\ LET e == assertLinkDoesNotExist(links, reqs["link"][i].user, reqs["link"][i].item)
     IN reqs' = IF e = "ok" THEN Goto("link", i, "create") ELSE Finish("link", i, e)
  /\ UNCHANGED <<now, nextId, posts, data, competition, memberships, links, logs>>

Linking_link_create(i) ==
  /\ reqs["link"][i].pc = "create"
  /\ Len(links) < MaxLinks
  /\ links' = Linking_create(links, reqs["link"][i].user, reqs["link"][i].item)
  /\ reqs' = Finish("link", i, "ok")
  /\ UNCHANGED <<now, nextId, posts, data, competition, memberships, logs>>

-----------------------------------------------------------------------------
(* Routes, part_008: posts and their links *)

createPost(user, isLinked) ==
  /\ CanCreate("posts")
  /\ isLinked => CanCall("link")
  /\ posts' = createOne(posts, [_id |-> NewId("posts"), author |-> user])
  /\ nextId' = Took("posts")
  /\ reqs' = IF isLinked
             THEN Start("link", Call("link", "createPost", user, NewId("posts"), 0, "assert"))
             ELSE reqs
  /\ UNCHANGED <<now, data, competition, memberships, links, logs>>

deletePost(user, id) ==
  /\ Posting_assertUserIsAuthor(id, user) = "ok"
  /\ posts' = deleteOne(posts, [_id |-> id])
  /\ links' = Linking_unlink(links, user, id).links
  /\ UNCHANGED <<now, nextId, data, competition, memberships, reqs, logs>>

createUserPostLink(user, id) ==
  /\ Posting_assertUserIsAuthor(id, user) = "ok"
  /\ CanCall("link")
  /\ reqs' = Start("link", Call("link", "createUserPostLink", user, id, 0, "assert"))
  /\ UNCHANGED <<now, nextId, posts, data, competition, memberships, links, logs>>

deleteUserPostLink(user, id) ==
  /\ links' = Linking_unlink(links, user, id).links
  /\ UNCHANGED <<now, nextId, posts, data, competition, memberships, reqs, logs>>

(* getPosts: what the handler computes for each post it returns *)
getPosts(user, author) ==
  IF author # 0
  THEN LET authorPosts == Posting_getByAuthor(author)
           authorPostsFormatted ==
             [i \in 1..Len(authorPosts) |-> Responses_post(authorPosts[i])]
       IN IF equals(user, author) THEN authorPostsFormatted
          ELSE filter(authorPostsFormatted,
                      [i \in 1..Len(authorPostsFormatted) |->
                         Promise(Linking_hasLink(links, user, authorPostsFormatted[i]._id))])
  ELSE LET allPostsFormatted == [i \in 1..Len(posts) |-> Responses_post(posts[i])]
       IN [i \in 1..Len(allPostsFormatted) |->
             LET post == allPostsFormatted[i]
             IN Promise(IF equals(user, post.author)
                           \/ Linking_hasLink(links, user, post._id)
                        THEN post ELSE Posting_redactAuthor(post))]

(* getPosts of part_009 *)
getPosts_part_009(user, author) ==
  LET linkedItems == {l.item : l \in Range(Linking_getLinks(links))}
      authorPosts == Posting_getByAuthor(author)
  IN IF author # 0
     THEN [i \in 1..Len(authorPosts) |->
             LET post == authorPosts[i]
             IN IF equals(user, post.author) \/ SetHas(linkedItems, post._id)
                THEN post ELSE Posting_redactAuthor(post)]
     ELSE [i \in 1..Len(posts) |->
             LET post == posts[i]
             IN IF SetHas(linkedItems, post._id)
                THEN post ELSE Posting_redactAuthor(post)]

-----------------------------------------------------------------------------
(* Routes: logging data.  logData is the same in part_008 and              *)
(* part_009.                                                               *)

(* logData up to its first await after Tracking.log: the DataPoint is      *)
(* stored, getUserMemberships is started and not awaited, and              *)
(* Linking.link is started and awaited when isLinked is "true".            *)
logDataUpTo(n, user, isLinked, date, score) ==
  /\ nextId["data"] < n
  /\ isLinked => CanCall("link")
  /\ LET r == Tracking_log(data, NewId("data"), user, date, score)
         fan == Call("fanout", "logData", user, r.ret, 0, "read")
         lnk == Call("link", "logData", user, r.ret, 0, "assert")
     IN /\ r.err = "ok"
        /\ data' = r.data
        /\ reqs' = [reqs EXCEPT !["fanout"] = Append(@, fan),
                                !["link"] = IF isLinked THEN Append(@, lnk) ELSE @]
        /\ logs' = Append(logs, [user |-> user, created |-> NewId("data"),
                                 doc |-> r.data[Len(r.data)], at |-> now,
                                 joined |-> {j \in Calls("join") : Succeeded("join", j)},
                                 returned |-> r.ret, fan |-> Len(reqs["fanout"]) + 1,
                                 link |-> IF isLinked THEN Len(reqs["link"]) + 1 ELSE 0])
  /\ nextId' = Took("data")
  /\ UNCHANGED <<now, posts, competition, memberships, links>>

logData(user, isLinked, date, score) == logDataUpTo(Max("data"), user, isLinked, date, score)

(* the .then callback: one inputData call per membership, none awaited *)
logData_fanout(i) ==
  /\ reqs["fanout"][i].pc = "read"
  /\ LET ms == Joining_getUserMemberships(memberships, reqs["fanout"][i].user)
     IN reqs' = [Finish("fanout", i, "ok") EXCEPT !["inputData"] = @ \o
                  [k \in 1..Len(ms) |->
                     [Call("inputData", "logData", reqs["fanout"][i].user,
                           reqs["fanout"][i].item, ms[k].group, "assert")
                        EXCEPT !.parent = i]]]
  /\ UNCHANGED <<now, nextId, posts, data, competition, memberships, links, logs>>

(* inputData that rolls the DataPoint back when the competition rejects it *)
inputData_assert_rollback(i) ==
  /\ reqs["inputData"][i].pc = "assert"
  /\ LET e == assertCompetitionIsActive(competition, reqs["inputData"][i].target, now)
     IN /\ reqs' = IF e = "ok" THEN Goto("inputData", i, "push")
                   ELSE Finish("inputData", i, e)
        /\ data' = IF e = "ok" THEN data
                   ELSE deleteOne(data, [_id |-> reqs["inputData"][i].item])
  /\ UNCHANGED <<now, nextId, posts, competition, memberships, links, logs>>

(* Competing.inputData as the two store calls it awaits *)
inputData_assert(i) ==
  /\ reqs["inputData"][i].pc = "assert"
  /\ LET e == assertCompetitionIsActive(competition, reqs["inputData"][i].target, now)
     IN reqs' = IF e = "ok" THEN Goto("inputData", i, "push") ELSE Finish("inputData", i, e)
  /\ UNCHANGED <<now, nextId, posts, data, competition, memberships, links, logs>>

inputData_push(i) ==
  /\ reqs["inputData"][i].pc = "push"
  /\ competition' = Competing_push(competition, reqs["inputData"][i].target, reqs["inputData"][i].item)
  /\ reqs' = Finish("inputData", i, "ok")
  /\ UNCHANGED <<now, nextId, posts, data, memberships, links, logs>>

-----------------------------------------------------------------------------
(* Joining.join as the two store calls it awaits: of the call              *)
(* join(user, group), the call's user is the first argument and its        *)
(* target the second                                                       *)

Joining_join_assert(i) ==
  /\ reqs["join"][i].pc = "assert"
  /\ LET e == assertUserIsNotMember(memberships, reqs["join"][i].user, reqs["join"][i].target)
     IN reqs' = IF e = "ok" THEN Goto("join", i, "create") ELSE Finish("join", i, e)
  /\ UNCHANGED <<now, nextId, posts, data, competition, memberships, links, logs>>

Joining_join_create(i) ==
  /\ reqs["join"][i].pc = "create"
  /\ Len(memberships) < MaxMembers
  /\ memberships' = Joining_create(memberships,
                                   reqs["join"][i].user, reqs["join"][i].target)
  /\ reqs' = Finish("join", i, "ok")
  /\ UNCHANGED <<now, nextId, posts, data, competition, links, logs>>

-----------------------------------------------------------------------------
(* Routes, part_009: competitions and memberships *)

EndDates == 1..(MaxTime + 1)
Owners == 1..NOwners

createCompetition(user, name, endDate) ==
  LET id == NewId("competition")
      r == Competing_create(competition, id, user, name, endDate, now)
      j == Joining_join(memberships, id, user)
  IN /\ CanCreate("competition")
     /\ Len(memberships) < MaxMembers
     /\ r.err = "ok"
     /\ competition' = r.competition
     /\ memberships' = j.memberships
     /\ nextId' = Took("competition")
     /\ UNCHANGED <<now, posts, data, links, reqs, logs>>

joinCompetition(user, name) ==
  LET c == Competing_getByName(competition, name)
  IN /\ ~IsNull(c)
     /\ CanCall("join")
     /\ reqs' = Start("join", Call("join", "joinCompetition", c[1]._id, 0, user, "assert"))
     /\ UNCHANGED <<now, nextId, posts, data, competition, memberships, links, logs>>

(* Joining.join(user, group) called as its signature names its arguments, *)
(* run without interruption                                               *)
join(user, group) ==
  /\ ~IsNull(readOne(competition, [_id |-> group]))
  /\ Len(memberships) < MaxMembers
  /\ Joining_join(memberships, user, group).err = "ok"
  /\ memberships' = Joining_join(memberships, user, group).memberships
  /\ UNCHANGED <<now, nextId, posts, data, competition, links, reqs, logs>>

-----------------------------------------------------------------------------

Next ==
  \/ \E i \in Calls("link") : Linking_link_assert(i)
  \/ \E i \in Calls("link") : Linking_link_create(i)
  \/ \E u \in Users, b \in Bools : createPost(u, b)
  \/ \E u \in Users, id \in ItemIds : deletePost(u, id)
  \/ \E u \in Users, id \in ItemIds : createUserPostLink(u, id)
  \/ \E u \in Users, id \in ItemIds : deleteUserPostLink(u, id)

Spec == Init /\ [][Next]_vars

-----------------------------------------------------------------------------
(* Properties of Linking and of the post read paths, over Spec *)

PostOf(id) == readOne(posts, [_id |-> id])
Viewers == Users
AuthorFilters == {0} \cup Users
Identifies(x, u) == x = u \/ x = Username(u)
LinksOf(user, item) == SelectSeq(links, LAMBDA l : l.user = user /\ l.item = item)

(* What a read path returned for the items it identifies: the elements    *)
(* that carry an _id                                                       *)
Returned(res) == {r \in Range(res) : "_id" \in DOMAIN r}

RedactionHolds(res, viewer) ==
  \A r \in Returned(res) :
    LET p == PostOf(r._id)
    IN (~IsNull(p) /\ p[1].author # viewer) =>
         IF Linking_hasLink(links, p[1].author, r._id)
         THEN "author" \in DOMAIN r /\ Identifies(r.author, p[1].author)
         ELSE "author" \notin DOMAIN r

(* C1: an item owned by U and returned to a viewer V other than U carries  *)
(* no author field when no Link (U, item) exists, and carries an author    *)
(* field identifying U when the Link exists.                               *)
C1_Redaction ==
  \A v \in Viewers, a \in AuthorFilters : RedactionHolds(getPosts(v, a), v)

OwnerSees(res, viewer, author) ==
  \A i \in 1..Len(posts) :
    (posts[i].author = viewer /\ author \in {0, viewer}) =>
      \E r \in Returned(res) :
        /\ r._id = posts[i]._id
        /\ "author" \in DOMAIN r
        /\ Identifies(r.author, viewer)

(* C2: the author of a post receives it with its author field present,     *)
(* with or without a Link, with or without an author filter.               *)
C2_OwnerSeesOwn ==
  \A v \in Viewers, a \in AuthorFilters :
    /\ OwnerSees(getPosts(v, a), v, a)
    /\ OwnerSees(getPosts_part_009(v, a), v, a)

(* C8: on every reachable link store and for every (user, item): a link    *)
(* that succeeds makes hasLink true, a following unlink makes it false,    *)
(* and a second link without an unlink in between fails with the           *)
(* already-linked error and leaves the store as it was.                    *)
C8_LinkAlgebra ==
  \A u \in Users, it \in ItemIds :
    LET r1 == Linking_link(links, u, it)
        r2 == Linking_link(r1.links, u, it)
        r3 == Linking_unlink(r1.links, u, it)
    IN /\ Linking_hasLink(r1.links, u, it)
       /\ r1.err = "ok" =>
            /\ r2.err = "LinkAlreadyExists"
            /\ r2.links = r1.links
            /\ r3.err = "ok"
            /\ ~Linking_hasLink(r3.links, u, it)

(* a link call has succeeded and an unlink has since removed its Link *)
C8_Witness ==
  \E i \in Calls("link") :
    /\ Succeeded("link", i)
    /\ ~Linking_hasLink(links, reqs["link"][i].user, reqs["link"][i].item)

(* C9: unlink fails with the not-linked error and changes nothing when no  *)
(* Link (user, item) exists; otherwise it removes that Link.               *)
C9_UnlinkAbsentFails ==
  \A u \in Users, it \in ItemIds :
    LET r == Linking_unlink(links, u, it)
    IN IF Linking_hasLink(links, u, it)
       THEN r.err = "ok" /\ Len(r.links) = Len(links) - 1
       ELSE r.err = "UserNotLinked" /\ r.links = links

(* C10: the link store holds at most one Link per (user, item). *)
C10_OneLinkPerPair ==
  \A u \in Users, it \in ItemIds : Len(LinksOf(u, it)) <= 1

-----------------------------------------------------------------------------
(* Properties of the data-logging flow and of joining *)

CompOf(id) == readOne(competition, [_id |-> id])
DataOf(id) == IF IsNull(CompOf(id)) THEN {} ELSE Range(CompOf(id)[1].data)
Children(f) == {c \in Calls("inputData") : reqs["inputData"][c].parent = f}

(* the fan-out of a log has read the memberships and every write it        *)
(* started has finished                                                    *)
Quiescent(f) ==
  /\ Done("fanout", f)
  /\ \A c \in Children(f) : Done("inputData", c)

(* the competitions `user` had joined through joinCompetition when log l   *)
(* was made                                                                *)
JoinedAt(l, user) ==
  {reqs["join"][j].user : j \in {k \in l.joined : /\ reqs["join"][k].via = "joinCompetition"
                                                    /\ reqs["join"][k].target = user}}

(* C3: U is a member of A, whose endDate is in the future, and of B, whose *)
(* endDate has passed, and logs a data point: the DataPoint exists and is  *)
(* U's, A's data list gains its id, B's data list is left alone, and the   *)
(* log itself succeeds.                                                    *)
C3_FanOutScenario ==
  \A k \in 1..Len(logs) :
    LET l == logs[k]
    IN \A A \in JoinedAt(l, l.user), B \in JoinedAt(l, l.user) :
         (/\ Quiescent(l.fan)
          /\ CompOf(A)[1].endDate > now
          /\ CompOf(B)[1].endDate < l.at) =>
           /\ \E d \in Range(data) : d._id = l.created /\ d.user = l.user
           /\ l.created \in DataOf(A)
           /\ \A c \in Children(l.fan) :
                reqs["inputData"][c].target = B => ~Succeeded("inputData", c)
           /\ l.link # 0 => (Done("link", l.link) => Succeeded("link", l.link))

(* C4: U joined the active competition C through joinCompetition; once     *)
(* the fan-out of U's log has run, C's data list holds the id of the       *)
(* logged data point.                                                      *)
C4_JoinedGetsData ==
  \A k \in 1..Len(logs) :
    \A C \in JoinedAt(logs[k], logs[k].user) :
      (Quiescent(logs[k].fan) /\ CompOf(C)[1].endDate > now) =>
        logs[k].created \in DataOf(C)

(* C7: of the join requests for one (user, group) pair that had no         *)
(* membership before, exactly one succeeds, the others fail with the       *)
(* already-member error, and the pair ends with exactly one record.        *)
SamePair(i, j) ==
  /\ reqs["join"][i].user = reqs["join"][j].user
  /\ reqs["join"][i].target = reqs["join"][j].target

C7_ConcurrentJoin ==
  \A i \in Calls("join"), j \in Calls("join") :
    (/\ i # j
     /\ SamePair(i, j)
     /\ Done("join", i)
     /\ Done("join", j)
     /\ CompOf(reqs["join"][i].user)[1].owner # reqs["join"][i].target) =>
      /\ Succeeded("join", i) # Succeeded("join", j)
      /\ {reqs["join"][i].err, reqs["join"][j].err} = {"ok", "UserIsAlreadyMember"}
      /\ Len(SelectSeq(memberships,
                       LAMBDA m : /\ m.user = reqs["join"][i].user
                                  /\ m.group = reqs["join"][i].target)) = 1

FlowOps == {"fanout", "inputData", "link"}

(* C5: the DataPoint of a log is in the store, as logged, whenever a       *)
(* membership read, inputData write or link write of that log exists, and  *)
(* stays there whatever becomes of those steps.                            *)
C5_DataPointPersists ==
  /\ \A k \in 1..Len(logs) : logs[k].doc \in Range(data)
  /\ \A op \in FlowOps : \A c \in Calls(op) :
       reqs[op][c].via = "logData" =>
         \E k \in 1..Len(logs) :
           /\ logs[k].returned = reqs[op][c].item
           /\ \E d \in Range(data) : d._id = reqs[op][c].item

(* a fan-out write of a log was rejected and the DataPoint is still there *)
C5_Witness ==
  \E k \in 1..Len(logs) :
    /\ logs[k].doc \in Range(data)
    /\ \E c \in Children(logs[k].fan) :
         /\ Done("inputData", c)
         /\ reqs["inputData"][c].err = "CompetitionEnded"

(* C6: an inputData call in flight for a competition whose endDate has     *)
(* passed can only finish rejected, with the competition-ended error and   *)
(* with no data list and no DataPoint changed.                             *)
C6_EndedWriteRejected ==
  [][\A i \in Calls("inputData") :
       (/\ ~Done("inputData", i)
        /\ ~IsNull(CompOf(reqs["inputData"][i].target))
        /\ CompOf(reqs["inputData"][i].target)[1].endDate < now
        /\ reqs'["inputData"][i].pc = "done") =>
         /\ reqs'["inputData"][i].err = "CompetitionEnded"
         /\ competition' = competition
         /\ data' = data]_vars

NextR9 ==
  \/ Tick
  \/ \E u \in Owners, n \in Names, e \in EndDates : createCompetition(u, n, e)
  \/ \E u \in Users, n \in Names : joinCompetition(u, n)
  \/ \E i \in Calls("join") : Joining_join_assert(i)
  \/ \E i \in Calls("join") : Joining_join_create(i)
  \/ \E u \in Users, d \in Dates, sc \in Scores : logData(u, FALSE, d, sc)
  \/ \E i \in Calls("fanout") : logData_fanout(i)

SpecR9 == Init /\ [][NextR9]_vars

NextFlow ==
  \/ Tick
  \/ \E u \in Owners, n \in Names, e \in EndDates : createCompetition(u, n, e)
  \/ \E u \in Users, g \in IdsOf("competition") : join(u, g)
  \/ \E u \in Users, b \in Bools, d \in Dates, sc \in Scores : logData(u, b, d, sc)
  \/ \E i \in Calls("fanout") : logData_fanout(i)
  \/ \E i \in Calls("inputData") : inputData_assert(i)
  \/ \E i \in Calls("inputData") : inputData_push(i)
  \/ \E i \in Calls("link") : Linking_link_assert(i)
  \/ \E i \in Calls("link") : Linking_link_create(i)

SpecFlow == Init /\ [][NextFlow]_vars

-----------------------------------------------------------------------------
(* Joining [User, Group], the revision of part_003 that the routes of      *)
(* part_008 are written against (join returns .membership), and leave      *)

(* part_003: if (!membership) throw new UserIsAlreadyMemberError *)
assertUserIsNotMember_part_003(M, user, group) ==
  IF IsNull(readOne(M, [user |-> user, group |-> group]))
  THEN "UserIsAlreadyMember" ELSE "ok"

Joining_join_part_003(M, user, group) ==
  LET e == assertUserIsNotMember_part_003(M, user, group)
  IN IF e # "ok" THEN [err |-> e, memberships |-> M]
     ELSE [err |-> "ok", memberships |-> Joining_create(M, user, group)]

assertUserIsMember(M, user, group) ==
  IF IsNull(readOne(M, [user |-> user, group |-> group]))
  THEN "UserIsNotMember" ELSE "ok"

(* leave: the assertion, then deleteOne({user, group}) *)
Joining_leave(M, user, group) ==
  LET e == assertUserIsMember(M, user, group)
  IN IF e # "ok" THEN [err |-> e, memberships |-> M]
     ELSE [err |-> "ok",
           memberships |-> deleteOne(M, [user |-> user, group |-> group])]

Groups == Base("competition") + 1 .. Base("competition") + MaxComps

IsMember(M, user, group) ==
  \E m \in Range(M) : m.user = user /\ m.group = group

(* C11: Joining.join(user, group) fails with the already-member error and  *)
(* leaves the store as it was when the pair has a membership, and          *)
(* otherwise succeeds and adds exactly one record, of that pair.           *)
C11_JoinOncePerPair ==
  \A u \in Users, g \in Groups :
    LET r == Joining_join_part_003(memberships, u, g)
    IN IF IsMember(memberships, u, g)
       THEN r.err = "UserIsAlreadyMember" /\ r.memberships = memberships
       ELSE /\ r.err = "ok"
            /\ r.memberships = Append(memberships, [user |-> u, group |-> g])

(* C12: Joining.leave(user, group) fails with the not-member error and     *)
(* leaves the store as it was when the pair has no membership; when it     *)
(* has one, leave succeeds and a following join of the pair succeeds.      *)
C12_LeaveThenJoin ==
  \A u \in Users \cup Groups, g \in Users \cup Groups :
    LET l == Joining_leave(memberships, u, g)
    IN IF IsMember(memberships, u, g)
       THEN /\ l.err = "ok"
            /\ Joining_join(l.memberships, u, g).err = "ok"
       ELSE l.err = "UserIsNotMember" /\ l.memberships = memberships

-----------------------------------------------------------------------------
(* Competing [User], competing.ts: update, inputData, delete and           *)
(* getCompetitions. An optional argument is <<>> when it is left out and   *)
(* <<v>> when it is given.                                                 *)

Undefined == <<>>
Opt(S) == {Undefined} \cup {<<x>> : x \in S}

(* if (name): undefined and the empty string are both falsy *)
NameGiven(name) == name # Undefined /\ name[1] # ""

assertUserIsNotOwner(C, user, id) ==
  LET c == readOne(C, [_id |-> id])
  IN IF IsNull(c) THEN "NotFound"
     ELSE IF c[1].owner = user THEN "AlreadyOwner" ELSE "ok"

assertValidUpdateInfo(C, id, name, owner, endDate, t) ==
  IF NameGiven(name) /\ assertNameUnique(C, name[1]) # "ok"
  THEN assertNameUnique(C, name[1])
  ELSE IF owner # Undefined /\ assertUserIsNotOwner(C, owner[1], id) # "ok"
  THEN assertUserIsNotOwner(C, owner[1], id)
  ELSE IF endDate # Undefined /\ assertDateIsInFuture(endDate[1], t) # "ok"
  THEN assertDateIsInFuture(endDate[1], t)
  ELSE "ok"

(* partialUpdateOne({_id}, {name, owner, endDate}): sets the fields that   *)
(* are not undefined                                                       *)
partialUpdateOne(C, id, name, owner, endDate) ==
  [k \in 1..Len(C) |->
     IF C[k]._id = id
     THEN [C[k] EXCEPT !.name = IF name # Undefined THEN name[1] ELSE @,
                       !.owner = IF owner # Undefined THEN owner[1] ELSE @,
                       !.endDate = IF endDate # Undefined THEN endDate[1] ELSE @]
     ELSE C[k]]

(* an update that writes the document anew, with an empty data list *)
Competing_update_clears(C, id, name, owner, endDate, t) ==
  IF assertCompetitionIsActive(C, id, t) # "ok"
  THEN [err |-> assertCompetitionIsActive(C, id, t), competition |-> C]
  ELSE IF assertValidUpdateInfo(C, id, name, owner, endDate, t) # "ok"
  THEN [err |-> assertValidUpdateInfo(C, id, name, owner, endDate, t), competition |-> C]
  ELSE [err |-> "ok",
        competition |-> [k \in 1..Len(C) |->
           IF C[k]._id = id
           THEN [partialUpdateOne(C, id, name, owner, endDate)[k] EXCEPT !.data = <<>>]
           ELSE C[k]]]

Competing_update(C, id, name, owner, endDate, t) ==
  IF assertCompetitionIsActive(C, id, t) # "ok"
  THEN [err |-> assertCompetitionIsActive(C, id, t), competition |-> C]
  ELSE IF assertValidUpdateInfo(C, id, name, owner, endDate, t) # "ok"
  THEN [err |-> assertValidUpdateInfo(C, id, name, owner, endDate, t), competition |-> C]
  ELSE [err |-> "ok", competition |-> partialUpdateOne(C, id, name, owner, endDate)]

Competing_inputData(C, id, dp, t) ==
  IF assertCompetitionIsActive(C, id, t) # "ok"
  THEN [err |-> assertCompetitionIsActive(C, id, t), competition |-> C]
  ELSE [err |-> "ok", competition |-> Competing_push(C, id, dp)]

Competing_delete_keeps(C, id) == C

Competing_delete(C, id) == deleteOne(C, [_id |-> id])

sortByEndDate_unsorted(C, lo, hi) == C

(* readMany(filter, { sort: { endDate: 1 } }): ascending by endDate, the   *)
(* documents of one endDate in the order of the collection                 *)
RECURSIVE sortByEndDate(_, _, _)
sortByEndDate(C, lo, hi) ==
  IF lo > hi THEN <<>>
  ELSE SelectSeq(C, LAMBDA c : c.endDate = lo) \o sortByEndDate(C, lo + 1, hi)

(* readMany({ endDate: { $gt: new Date() } }, { sort: { endDate: 1 } }) *)
Competing_getCompetitions(C, t) ==
  sortByEndDate(SelectSeq(C, LAMBDA c : c.endDate > t), 0, MaxTime + 1)

-----------------------------------------------------------------------------
(* Competing called on its own, each call run without interruption *)

UpdateNames == Names \cup {""}
DataIds == Base("data") + 1 .. Base("data") + MaxData

create(owner, name, endDate) ==
  LET r == Competing_create(competition, NewId("competition"), owner, name, endDate, now)
  IN /\ CanCreate("competition")
     /\ r.err = "ok"
     /\ competition' = r.competition
     /\ nextId' = Took("competition")
     /\ UNCHANGED <<now, posts, data, memberships, links, reqs, logs>>

update(id, name, owner, endDate) ==
  LET r == Competing_update(competition, id, name, owner, endDate, now)
  IN /\ r.err = "ok"
     /\ competition' = r.competition
     /\ UNCHANGED <<now, nextId, posts, data, memberships, links, reqs, logs>>

inputData(id, dp) ==
  LET r == Competing_inputData(competition, id, dp, now)
  IN /\ r.err = "ok"
     /\ Len(CompOf(id)[1].data) < MaxData
     /\ competition' = r.competition
     /\ UNCHANGED <<now, nextId, posts, data, memberships, links, reqs, logs>>

(* Competing.delete that takes the group's membership records with it *)
delete_cascade(id) ==
  /\ ~IsNull(CompOf(id))
  /\ competition' = Competing_delete(competition, id)
  /\ memberships' = SelectSeq(memberships, LAMBDA m : m.user # id /\ m.group # id)
  /\ UNCHANGED <<now, nextId, posts, data, links, reqs, logs>>

delete(id) ==
  /\ ~IsNull(CompOf(id))
  /\ competition' = Competing_delete(competition, id)
  /\ UNCHANGED <<now, nextId, posts, data, memberships, links, reqs, logs>>

NextComp ==
  \/ Tick
  \/ \E u \in Owners, n \in Names, e \in EndDates : create(u, n, e)
  \/ \E id \in IdsOf("competition"), n \in Opt(UpdateNames), u \in Opt(Users),
        e \in Opt(EndDates) : update(id, n, u, e)
  \/ \E id \in IdsOf("competition"), dp \in DataIds : inputData(id, dp)
  \/ \E id \in IdsOf("competition") : delete(id)

SpecComp == Init /\ [][NextComp]_vars

-----------------------------------------------------------------------------
(* Properties of Competing *)

AnyDates == 0..(MaxTime + 1)
Unchanged(r, e) == r = [err |-> e, competition |-> competition]

(* C13: for a competition whose endDate is before now, every inputData     *)
(* and every update, whatever its arguments, is rejected with the          *)
(* competition-ended error and leaves the collection as it was.            *)
C13_EndedIsFrozen ==
  \A c \in Range(competition) :
    c.endDate < now =>
      /\ \A dp \in DataIds :
           Unchanged(Competing_inputData(competition, c._id, dp, now), "CompetitionEnded")
      /\ \A n \in Opt(UpdateNames), u \in Opt(Users), e \in Opt(AnyDates) :
           Unchanged(Competing_update(competition, c._id, n, u, e, now), "CompetitionEnded")

(* an ended competition that was written and handed over while active *)
C13_Witness ==
  \E c \in Range(competition) :
    c.endDate < now /\ c.data # <<>> /\ c.owner \notin Owners

(* C14: create, and update of an active competition with an endDate, are   *)
(* rejected with DateNotInFuture and change nothing whenever the endDate   *)
(* is at or before now.                                                    *)
C14_DateAtOrBeforeNow ==
  \A e \in AnyDates :
    e <= now =>
      /\ \A u \in Users, n \in Names :
           IsNull(Competing_getByName(competition, n)) =>
             Unchanged(Competing_create(competition, NewId("competition"), u, n, e, now),
                       "DateNotInFuture")
      /\ \A c \in Range(competition) :
           c.endDate >= now =>
             Unchanged(Competing_update(competition, c._id, Undefined, Undefined, <<e>>, now),
                       "DateNotInFuture")

OnlyOneNamed(c) == \A d \in Range(competition) : d.name = c.name => d = c

(* C15: while a competition named N exists, create with name N is          *)
(* rejected for every owner and end date; once that competition is         *)
(* deleted, create with name N and an end date in the future succeeds.     *)
C15_NameReusableAfterDelete ==
  \A c \in Range(competition) :
    /\ \A u \in Users, e \in AnyDates :
         Unchanged(Competing_create(competition, NewId("competition"), u, c.name, e, now),
                   "NameNotUnique")
    /\ OnlyOneNamed(c) =>
         \A u \in Users, e \in AnyDates :
           e > now =>
             LET D == Competing_delete(competition, c._id)
                 r == Competing_create(D, NewId("competition"), u, c.name, e, now)
             IN /\ r.err = "ok"
                /\ \E d \in Range(r.competition) : d.name = c.name /\ d.owner = u

(* one competition was deleted and one, created after it, stands *)
C15_Witness ==
  /\ Len(competition) = 1
  /\ nextId["competition"] = 2
  /\ competition[1]._id = Base("competition") + 2
  /\ OnlyOneNamed(competition[1])
  /\ now <= MaxTime

ChecksPass(c, name, owner, endDate) ==
  /\ name # Undefined => IsNull(Competing_getByName(competition, name[1]))
  /\ owner # Undefined => owner[1] # c.owner
  /\ endDate # Undefined => endDate[1] > now

(* C17: update of an active competition writes nothing unless every        *)
(* supplied field passes its check (name unused, owner not the current     *)
(* owner, endDate after now), and then changes exactly the supplied        *)
(* fields.                                                                 *)
C17_UpdateAllOrNothing ==
  \A c \in Range(competition) :
    c.endDate > now =>
      \A n \in Opt(UpdateNames), u \in Opt(Users), e \in Opt(AnyDates) :
        LET r == Competing_update(competition, c._id, n, u, e, now)
        IN IF ChecksPass(c, n, u, e)
           THEN /\ r.err = "ok"
                /\ r.competition = partialUpdateOne(competition, c._id, n, u, e)
           ELSE r.err # "ok" /\ r.competition = competition

Active(C, t) == {c \in Range(C) : c.endDate > t}

(* C18 as stated: two getCompetitions calls with no write between them     *)
(* return the same list.                                                   *)
C18_SameListWithoutWrite ==
  [][competition' = competition =>
       Competing_getCompetitions(competition', now')
         = Competing_getCompetitions(competition, now)]_vars

(* C18: getCompetitions returns exactly the competitions whose endDate is  *)
(* after now, ascending by endDate; of two calls with no write between     *)
(* them the later returns the list of the earlier without the              *)
(* competitions whose endDate has passed meanwhile, in the same order.     *)
C18_ActiveAscending ==
  [][LET res == Competing_getCompetitions(competition', now')
     IN /\ Range(res) = Active(competition', now')
        /\ Len(res) = Len(SelectSeq(competition', LAMBDA c : c.endDate > now'))
        /\ \A i \in 1..Len(res), j \in 1..Len(res) :
             i < j => res[i].endDate <= res[j].endDate
        /\ competition' = competition =>
             res = SelectSeq(Competing_getCompetitions(competition, now),
                             LAMBDA c : c.endDate > now')]_vars

(* two active competitions, the one created later ending first *)
C18_Witness ==
  /\ Len(Competing_getCompetitions(competition, now)) = 2
  /\ Competing_getCompetitions(competition, now) # competition

-----------------------------------------------------------------------------
(* Competing.create and Competing.update as the store calls they await,    *)
(* one call at a time or several in flight                                 *)

CreateCall(owner, name, endDate) ==
  [op |-> "create", owner |-> owner, name |-> name, endDate |-> endDate,
   pc |-> "assertNameUnique", err |-> ""]

UpdateCall(id, name, owner, endDate) ==
  [op |-> "update", id |-> id, name |-> name, owner |-> owner, endDate |-> endDate,
   pc |-> "assertCompetitionIsActive", err |-> ""]

Competing_create_call(owner, name, endDate) ==
  /\ CanCall("create")
  /\ reqs' = Start("create", CreateCall(owner, name, endDate))
  /\ UNCHANGED <<now, nextId, posts, data, competition, memberships, links, logs>>

Competing_create_assert(i) ==
  /\ reqs["create"][i].pc = "assertNameUnique"
  /\ LET c == reqs["create"][i]
         e == IF assertNameUnique(competition, c.name) # "ok"
              THEN assertNameUnique(competition, c.name)
              ELSE assertDateIsInFuture(c.endDate, now)
     IN reqs' = IF e = "ok" THEN Goto("create", i, "createOne") ELSE Finish("create", i, e)
  /\ UNCHANGED <<now, nextId, posts, data, competition, memberships, links, logs>>

Competing_create_createOne(i) ==
  /\ reqs["create"][i].pc = "createOne"
  /\ CanCreate("competition")
  /\ LET c == reqs["create"][i]
     IN competition' = createOne(competition,
                                 [_id |-> NewId("competition"), name |-> c.name,
                                  owner |-> c.owner, endDate |-> c.endDate, data |-> <<>>])
  /\ nextId' = Took("competition")
  /\ reqs' = Finish("create", i, "ok")
  /\ UNCHANGED <<now, posts, data, memberships, links, logs>>

Competing_update_call(id, name, owner, endDate) ==
  /\ CanCall("update")
  /\ reqs' = Start("update", UpdateCall(id, name, owner, endDate))
  /\ UNCHANGED <<now, nextId, posts, data, competition, memberships, links, logs>>

Competing_update_assert(i) ==
  /\ reqs["update"][i].pc = "assertCompetitionIsActive"
  /\ LET c == reqs["update"][i]
         e == IF assertCompetitionIsActive(competition, c.id, now) # "ok"
              THEN assertCompetitionIsActive(competition, c.id, now)
              ELSE assertValidUpdateInfo(competition, c.id, c.name, c.owner, c.endDate, now)
     IN reqs' = IF e = "ok" THEN Goto("update", i, "partialUpdateOne")
                ELSE Finish("update", i, e)
  /\ UNCHANGED <<now, nextId, posts, data, competition, memberships, links, logs>>

Competing_update_partialUpdateOne(i) ==
  /\ reqs["update"][i].pc = "partialUpdateOne"
  /\ LET c == reqs["update"][i]
     IN competition' = partialUpdateOne(competition, c.id, c.name, c.owner, c.endDate)
  /\ reqs' = Finish("update", i, "ok")
  /\ UNCHANGED <<now, nextId, posts, data, memberships, links, logs>>

NextRace ==
  \/ \E u \in Owners, n \in Names : Competing_create_call(u, n, MaxTime + 1)
  \/ \E i \in Calls("create") : Competing_create_assert(i)
  \/ \E i \in Calls("create") : Competing_create_createOne(i)
  \/ \E id \in IdsOf("competition"), n \in Names :
       Competing_update_call(id, <<n>>, Undefined, Undefined)
  \/ \E i \in Calls("update") : Competing_update_assert(i)
  \/ \E i \in Calls("update") : Competing_update_partialUpdateOne(i)
  \/ \E id \in IdsOf("competition") : delete(id)

SpecRace == Init /\ [][NextRace]_vars

(* C16: no two competitions in the collection have the same name,          *)
(* whatever creates, updates and deletes have run and however their store  *)
(* calls were interleaved.                                                 *)
C16_UniqueNames ==
  \A i \in 1..Len(competition), j \in 1..Len(competition) :
    i # j => competition[i].name # competition[j].name

-----------------------------------------------------------------------------
(* Tracking [User], tracking.ts: getData and delete *)

(* a !== b on two Date objects compares identity: the Date read from the   *)
(* store and the Date passed as argument are two objects                   *)
StrictNotEqual(a, b) == TRUE

(* Array.prototype.sort with (a, b) => b.key - a.key: descending, the      *)
(* elements of one key in their order before the sort                      *)
RECURSIVE sortDescending(_, _, _, _)
sortDescending(arr, key, lo, hi) ==
  IF hi < lo THEN <<>>
  ELSE SelectSeq(arr, LAMBDA d : d[key] = hi) \o sortDescending(arr, key, lo, hi - 1)

Tracking_getData(D, user, date, dateRange, sort) ==
  LET allData == [i \in 1..Len(D) |-> D[Len(D) + 1 - i]]
      filteredData ==
        SelectSeq(allData,
                  LAMBDA d :
                    /\ ~(user # Undefined /\ ~equals(d.user, user[1]))
                    /\ ~(date # Undefined /\ StrictNotEqual(d.date, date[1]))
                    /\ ~(dateRange # Undefined
                         /\ (d.date < dateRange[1][1] \/ dateRange[1][2] < d.date)))
  IN IF sort = Undefined THEN filteredData
     ELSE sortDescending(filteredData, sort[1], 0, MaxDate + MaxScore + 1)

Tracking_delete(D, id) == deleteOne(D, [_id |-> id])

-----------------------------------------------------------------------------
(* Tracking called on its own *)

TrackDates == 1..(MaxDate + 1)
TrackScores == 0..MaxScore
TrackIds == (Base("data") + 1)..(Base("data") + MaxLogs)
DateRanges == {r \in TrackDates \X TrackDates : r[1] <= r[2]}
SortOptions == {"score", "date"}

log(user, date, score) ==
  LET r == Tracking_log(data, NewId("data"), user, date, score)
  IN /\ nextId["data"] < MaxLogs
     /\ r.err = "ok"
     /\ data' = r.data
     /\ nextId' = Took("data")
     /\ UNCHANGED <<now, posts, competition, memberships, links, reqs, logs>>

deleteData(id) ==
  /\ ~IsNull(readOne(data, [_id |-> id]))
  /\ data' = Tracking_delete(data, id)
  /\ UNCHANGED <<now, nextId, posts, competition, memberships, links, reqs, logs>>

NextTrack ==
  \/ \E u \in Users, d \in TrackDates, sc \in TrackScores : log(u, d, sc)
  \/ \E id \in TrackIds : deleteData(id)

SpecTrack == Init /\ [][NextTrack]_vars

Satisfying(user, date, dateRange) ==
  {d \in Range(data) :
     /\ user # Undefined => d.user = user[1]
     /\ date # Undefined => d.date = date[1]
     /\ dateRange # Undefined => dateRange[1][1] <= d.date /\ d.date <= dateRange[1][2]}

(* C19: getData returns exactly the data points that satisfy every filter  *)
(* it is given (user, date, or inclusive date range, alone or together     *)
(* with the user and a sort), each once, and in descending order of score  *)
(* or of date when a sort is asked for.                                    *)
C19_FiltersInConjunction ==
  \A u \in Opt(Users), d \in Opt(TrackDates), r \in Opt(DateRanges), s \in Opt(SortOptions) :
    (d = Undefined \/ r = Undefined) =>
      LET res == Tracking_getData(data, u, d, r, s)
      IN /\ Range(res) = Satisfying(u, d, r)
         /\ Len(res) = Cardinality(Satisfying(u, d, r))
         /\ s # Undefined =>
              \A i \in 1..Len(res), j \in 1..Len(res) :
                i < j => res[i][s[1]] >= res[j][s[1]]

(* C20: Tracking.log returns the data point it has just inserted, whatever *)
(* the collection held before.                                             *)
C20_LogReturnsCreated ==
  \A u \in Users, d \in TrackDates, sc \in TrackScores :
    LET r == Tracking_log(data, NewId("data"), u, d, sc)
    IN r.err = "ok" /\ r.ret = NewId("data")

-----------------------------------------------------------------------------
(* Joining.getMembers, joining.ts: readMany({ id: group }), then the user  *)
(* of each record found                                                    *)
Joining_getMembers(M, group) ==
  LET groupDoc == readMany(M, [id |-> group])
  IN [i \in 1..Len(groupDoc) |-> groupDoc[i].user]

(* C21: getMembers(group) returns exactly the users that have a            *)
(* membership record in that group.                                        *)
C21_MembersOfGroup ==
  \A g \in Groups :
    Range(Joining_getMembers(memberships, g))
      = {m.user : m \in {x \in Range(memberships) : x.group = g}}

-----------------------------------------------------------------------------
(* Routes, part_008: the owner's operations on competitions and on data    *)
(* points.  The outcome of the last update, delete or link request on a    *)
(* competition is kept in reqs["route"], with whether the caller owned the *)
(* competition when the request arrived.                                   *)

(* Competing.assertUserIsOwner(user, competition), competing.ts *)
Competing_assertUserIsOwner(C, user, comp) ==
  LET c == readOne(C, [_id |-> comp])
  IN IF IsNull(c) THEN "NotFound"
     ELSE IF c[1].owner # user THEN "CompetitionOwnerNotMatch" ELSE "ok"

(* Tracking.assertUserIsOwner(_id, user), tracking.ts *)
Tracking_assertUserIsOwner(D, id, user) ==
  LET d == readOne(D, [_id |-> id])
  IN IF IsNull(d) THEN "NotFound"
     ELSE IF d[1].user # user THEN "DataOwnerNotMatch" ELSE "ok"

RouteCall(via, user, target, err) ==
  [op |-> "route", via |-> via, user |-> user, target |-> target,
   wasOwner |-> ~IsNull(CompOf(target)) /\ CompOf(target)[1].owner = user,
   pc |-> "done", err |-> err]

Answered(call) == [reqs EXCEPT !["route"] = <<call>>]

(* the handlers call Competing.assertUserIsOwner(oid, user) *)
updateCompetition(user, name, newName, owner, endDate) ==
  LET c == Competing_getByName(competition, name)
      oid == c[1]._id
      e == Competing_assertUserIsOwner(competition, oid, user)
      r == Competing_update(competition, oid, newName, owner, endDate, now)
  IN /\ ~IsNull(c)
     /\ competition' = IF e = "ok" THEN r.competition ELSE competition
     /\ reqs' = Answered(RouteCall("updateCompetition", user, oid,
                                   IF e = "ok" THEN r.err ELSE e))
     /\ UNCHANGED <<now, nextId, posts, data, memberships, links, logs>>

deleteCompetition(user, name) ==
  LET c == Competing_getByName(competition, name)
      oid == c[1]._id
      e == Competing_assertUserIsOwner(competition, oid, user)
  IN /\ ~IsNull(c)
     /\ competition' = IF e = "ok" THEN Competing_delete(competition, oid) ELSE competition
     /\ links' = IF e = "ok" THEN Linking_unlink(links, user, oid).links ELSE links
     /\ reqs' = Answered(RouteCall("deleteCompetition", user, oid, e))
     /\ UNCHANGED <<now, nextId, posts, data, memberships, logs>>

createUserCompetitionLink(user, id) ==
  LET e == Competing_assertUserIsOwner(competition, id, user)
  IN /\ ~IsNull(CompOf(id))
     /\ e = "ok" => CanCall("link")
     /\ reqs' = IF e = "ok"
                THEN [Answered(RouteCall("createUserCompetitionLink", user, id, e))
                        EXCEPT !["link"] = Append(@, Call("link", "createUserCompetitionLink",
                                                          user, id, 0, "assert"))]
                ELSE Answered(RouteCall("createUserCompetitionLink", user, id, e))
     /\ UNCHANGED <<now, nextId, posts, data, competition, memberships, links, logs>>

createUserDataLink_unchecked(user, id) ==
  /\ CanCall("link")
  /\ reqs' = Start("link", Call("link", "createUserDataLink", user, id, 0, "assert"))
  /\ UNCHANGED <<now, nextId, posts, data, competition, memberships, links, logs>>

createUserDataLink(user, id) ==
  /\ Tracking_assertUserIsOwner(data, id, user) = "ok"
  /\ CanCall("link")
  /\ reqs' = Start("link", Call("link", "createUserDataLink", user, id, 0, "assert"))
  /\ UNCHANGED <<now, nextId, posts, data, competition, memberships, links, logs>>

(* an unlink that removes the item's Link whoever holds it *)
deleteUserDataLink_anyone(user, id) ==
  /\ links' = deleteOne(links, [item |-> id])
  /\ reqs' = Answered(RouteCall("deleteUserDataLink", user, id, "ok"))
  /\ UNCHANGED <<now, nextId, posts, data, competition, memberships, logs>>

deleteUserDataLink(user, id) ==
  LET r == Linking_unlink(links, user, id)
  IN /\ links' = r.links
     /\ reqs' = Answered(RouteCall("deleteUserDataLink", user, id, r.err))
     /\ UNCHANGED <<now, nextId, posts, data, competition, memberships, logs>>

(* deleteData of the routes: the ownership check, then Tracking.delete *)
deleteDataPoint(user, id) ==
  /\ Tracking_assertUserIsOwner(data, id, user) = "ok"
  /\ data' = Tracking_delete(data, id)
  /\ UNCHANGED <<now, nextId, posts, competition, memberships, links, reqs, logs>>

RouteEnd == MaxTime + 1

NextDel ==
  \/ \E u \in Owners, n \in Names : createCompetition(u, n, RouteEnd)
  \/ \E u \in Users, n \in Names, o \in Opt(Users) :
       updateCompetition(u, n, Undefined, o, Undefined)
  \/ \E u \in Users, n \in Names : deleteCompetition(u, n)
  \/ \E u \in Users, id \in IdsOf("competition") : createUserCompetitionLink(u, id)
  \/ \E id \in IdsOf("competition") : delete(id)
  \/ \E u \in Users, l \in Bools, d \in Dates, sc \in Scores : logData(u, l, d, sc)
  \/ \E i \in Calls("fanout") : logData_fanout(i)
  \/ \E i \in Calls("link") : Linking_link_assert(i)
  \/ \E i \in Calls("link") : Linking_link_create(i)
  \/ \E u \in Users, id \in IdsOf("data") : createUserDataLink(u, id)
  \/ \E u \in Users, id \in IdsOf("data") : deleteUserDataLink(u, id)
  \/ \E u \in Users, id \in IdsOf("data") : deleteDataPoint(u, id)

SpecDel == Init /\ [][NextDel]_vars

Without(C, id) == SelectSeq(C, LAMBDA c : c._id # id)

(* C22: Competing.delete(id) removes only that competition: every Membership, *)
(* every Link and every other competition is the same after the step.         *)
C22_DeleteOnlyThat ==
  [][\A id \in IdsOf("competition") :
       (~IsNull(CompOf(id)) /\ IsNull(CompOf(id)'))
         => /\ memberships' = memberships
            /\ links' = links
            /\ competition' = Without(competition, id)]_vars

(* a deleted competition whose membership record is still stored, beside a *)
(* second competition and a Link                                           *)
C22_Witness ==
  /\ \E id \in IdsOf("competition") :
       /\ id <= Base("competition") + nextId["competition"]
       /\ IsNull(CompOf(id))
       /\ \E m \in Range(memberships) : m.user = id \/ m.group = id
  /\ Len(competition) >= 1
  /\ Len(links) >= 1

OwnerRoutes == {"updateCompetition", "deleteCompetition"}

(* C24: updateCompetition and deleteCompetition go ahead exactly when the    *)
(* caller is the competition's current owner: the owner is never stopped by  *)
(* the ownership check, and anyone else is stopped with the owner-mismatch   *)
(* error.                                                                    *)
C24_OwnerGate ==
  \A i \in Calls("route") :
    LET call == reqs["route"][i]
    IN call.via \in OwnerRoutes
         => /\ call.wasOwner => call.err \notin {"NotFound", "CompetitionOwnerNotMatch"}
            /\ ~call.wasOwner => call.err = "CompetitionOwnerNotMatch"

Created(coll) == {id \in IdsOf(coll) : id <= Base(coll) + nextId[coll]}
Deleted(coll, C) == {id \in Created(coll) : IsNull(readOne(C, [_id |-> id]))}

(* C27: once its owner has deleted an item (here a data point or a          *)
(* competition), no Link naming that item remains.                          *)
C27_DeleteDropsLink ==
  \A l \in Range(links) :
    l.item \notin Deleted("data", data) \cup Deleted("competition", competition)

-----------------------------------------------------------------------------
(* Linking of part_005, whose unlink asserts the Link first, under the     *)
(* post routes of part_009                                                 *)

assertUserIsLinked(L, user, item) ==
  IF IsNull(readOne(L, [user |-> user, item |-> item])) THEN "UserNotLinked" ELSE "ok"

Linking_unlink_part_005(L, user, item) ==
  LET e == assertUserIsLinked(L, user, item)
  IN IF e # "ok" THEN [err |-> e, links |-> L]
     ELSE [err |-> "ok", links |-> deleteOne(L, [user |-> user, item |-> item])]

(* the request's outcome, kept in reqs["route"]; the steps of the handler *)
(* before the throw have been stored                                      *)
deletePost_part_009(user, id) ==
  LET e == Posting_assertUserIsAuthor(id, user)
      r == Linking_unlink_part_005(links, user, id)
  IN /\ ~IsNull(readOne(posts, [_id |-> id]))
     /\ posts' = IF e = "ok" THEN deleteOne(posts, [_id |-> id]) ELSE posts
     /\ links' = IF e = "ok" THEN r.links ELSE links
     /\ reqs' = Answered([op |-> "route", via |-> "deletePost", user |-> user,
                          target |-> id, wasOwner |-> e = "ok",
                          wasLinked |-> assertUserIsLinked(links, user, id) = "ok",
                          pc |-> "done", err |-> IF e = "ok" THEN r.err ELSE e])
     /\ UNCHANGED <<now, nextId, data, competition, memberships, logs>>

deleteUserPostLink_part_009(user, id) ==
  /\ links' = Linking_unlink_part_005(links, user, id).links
  /\ UNCHANGED <<now, nextId, posts, data, competition, memberships, reqs, logs>>

NextP9 ==
  \/ Tick
  \/ \E i \in Calls("link") : Linking_link_assert(i)
  \/ \E i \in Calls("link") : Linking_link_create(i)
  \/ \E u \in Users, b \in Bools : createPost(u, b)
  \/ \E u \in Users, id \in IdsOf("posts") : deletePost_part_009(u, id)
  \/ \E u \in Users, id \in IdsOf("posts") : createUserPostLink(u, id)
  \/ \E u \in Users, id \in IdsOf("posts") : deleteUserPostLink_part_009(u, id)

SpecP9 == Init /\ [][NextP9]_vars

(* C26: when the author deletes a post that has no Link, the request does *)
(* not end in an error with the post already removed: it succeeds, or it  *)
(* fails and the post is still stored.                                    *)
C26_NoErrorAfterRemoval ==
  \A i \in Calls("route") :
    LET call == reqs["route"][i]
    IN (call.via = "deletePost" /\ call.wasOwner /\ ~call.wasLinked)
         => call.err = "ok" \/ ~IsNull(readOne(posts, [_id |-> call.target]))

-----------------------------------------------------------------------------
UserLinks(L, user) == SelectSeq(L, LAMBDA l : l.user = user)

OthersKeep(user) == \A w \in Users \ {user} : UserLinks(links', w) = UserLinks(links, w)

(* C29: a link or unlink request of caller V creates or removes only Links *)
(* whose user is V; the Links of every other user are the same after the   *)
(* step, also when the item V names in unlink is another user's.           *)
C29_OnlyOwnLinks ==
  [][/\ \A v \in Users, id \in IdsOf("data") : deleteUserDataLink(v, id) => OthersKeep(v)
     /\ \A i \in Calls("link") : Linking_link_create(i) => OthersKeep(reqs["link"][i].user)]_vars

(* caller V has asked to unlink a data point that another user holds a Link *)
(* on, and V has a request to link in the books that went through           *)
C29_Witness ==
  /\ \E i \in Calls("route") :
       /\ reqs["route"][i].via = "deleteUserDataLink"
       /\ \E l \in Range(links) :
            l.item = reqs["route"][i].target /\ l.user # reqs["route"][i].user
  /\ \E i \in Calls("link") : Succeeded("link", i)

-----------------------------------------------------------------------------
IsPrefix(p, q) == Len(p) <= Len(q) /\ \A k \in 1..Len(p) : q[k] = p[k]

-----------------------------------------------------------------------------
(* Logging again: a user who logs, joins or leaves, and logs once more.    *)
(* join and leave are Joining's own operations, called as their signatures *)
(* name the arguments.                                                     *)

leave(user, group) ==
  /\ Joining_leave(memberships, user, group).err = "ok"
  /\ memberships' = Joining_leave(memberships, user, group).memberships
  /\ UNCHANGED <<now, nextId, posts, data, competition, links, reqs, logs>>

NextLog ==
  \/ \E u \in Owners, n \in Names : createCompetition(u, n, RouteEnd)
  \/ \E u \in Users, g \in IdsOf("competition") : join(u, g)
  \/ \E u \in Users, g \in IdsOf("competition") : leave(u, g)
  \/ \E u \in Users, d \in Dates, sc \in Scores : logDataUpTo(MaxReqs, u, FALSE, d, sc)
  \/ \E i \in Calls("fanout") : logData_fanout(i)
  \/ \E i \in Calls("inputData") : inputData_assert(i)
  \/ \E i \in Calls("inputData") : inputData_push(i)

SpecLog == Init /\ [][NextLog]_vars

(* C25: no data-point id occurs twice in the data list of a competition. *)
C25_NoDuplicateIds ==
  \A c \in Range(competition) :
    \A j, k \in 1..Len(c.data) : j # k => c.data[j] # c.data[k]

(* C30: an id is in a competition's data list only if the fan-out of the  *)
(* log request that created that data point read a membership of the      *)
(* logging user in that competition; so a data point logged before the    *)
(* user joined, or after the user left, is in no list of that competition. *)
C30_OnlyMembersData ==
  \A c \in Range(competition) :
    \A j \in 1..Len(c.data) :
      \E k \in 1..Len(logs) :
        /\ logs[k].created = c.data[j]
        /\ \/ reqs["fanout"][logs[k].fan].pc = "read"
           \/ \E i \in Calls("inputData") :
                /\ reqs["inputData"][i].parent = logs[k].fan
                /\ reqs["inputData"][i].target = c._id
                /\ reqs["inputData"][i].user = logs[k].user
====
